---- MODULE Spec2Model ----
(***************************************************************************)
(* Model of the Minesweeper knowledge-base engine of minesweeper.py:       *)
(* class Sentence and class MinesweeperAI, driven by a board that answers  *)
(* truthful clues (Minesweeper.nearby_mines) for cells that hold no mine.  *)
(*                                                                         *)
(* add_knowledge is modelled statement by statement: `pc` is the position  *)
(* of the single thread of control inside add_knowledge and the methods it *)
(* calls.  While pc # "idle" only the call's own next statement is         *)
(* enabled: the driver acts again only once the call has returned. Python's*)
(* `for x in list` is an index into the list that advances by one per      *)
(* iteration whatever happens to the list in the body; `for x in set`      *)
(* visits the members in an order the language leaves open.                *)
(***************************************************************************)
EXTENDS Integers, Sequences, FiniteSets, TLC

\* Bounds of the model
Height   == 2      \* rows of the board
Width    == 4      \* columns of the board
MaxMines == 2      \* at most this many mines are placed
MaxCalls == 4      \* at most this many add_knowledge calls per game
MaxAnyCalls == 3   \* at most this many calls with arbitrary arguments

Cells == (0 .. Height - 1) \X (0 .. Width - 1)

\* Python's None, as returned by the move queries
None == <<-1, -1>>

\* The value held by a local variable that is not in scope
NoSentence == [cells |-> {}, count |-> -99]

VARIABLES
    board,            \* Minesweeper.mines: the cells that hold a mine
    moves_made,       \* MinesweeperAI.moves_made
    mines,            \* MinesweeperAI.mines
    safes,            \* MinesweeperAI.safes
    knowledge,        \* MinesweeperAI.knowledge: list of Sentence
    pc,               \* position of control
    cell, count,      \* add_knowledge: its parameters (count is reassigned)
    neighbour_cells,  \* add_knowledge: local
    new_knowledge,    \* add_knowledge: local list
    i, j,             \* add_knowledge: next index of the outer / inner list iterator
    subPos, subVal,   \* add_knowledge: the object bound to sub_set: its index in
                      \*   knowledge while it is in the list, else its (frozen) value
    new_cells, new_count,   \* add_knowledge: locals of the subset pass
    mcCells, mcKind, mcRet, \* mark_cells: members still to visit, branch, return position
    mkCell, mkKind, k, mkRet, \* mark_safe / mark_mine: cell, which of the two, list
                      \*   iterator index, return position
    calls,            \* number of add_knowledge calls made
    lastQuery, result \* last move query answered since the last add_knowledge, and its value

engine == <<moves_made, mines, safes, knowledge>>
akLocals == <<cell, count, neighbour_cells, new_knowledge, i, j, subPos, subVal,
              new_cells, new_count>>
mcLocals == <<mcCells, mcKind, mcRet>>
mkLocals == <<mkCell, mkKind, k, mkRet>>
query == <<lastQuery, result>>
vars == <<board, moves_made, mines, safes, knowledge, pc, cell, count,
          neighbour_cells, new_knowledge, i, j, subPos, subVal, new_cells,
          new_count, mcCells, mcKind, mcRet, mkCell, mkKind, k, mkRet, calls,
          lastQuery, result>>

-----------------------------------------------------------------------------
\* class Sentence

Sentence(cs, n) == [cells |-> cs, count |-> n]

SentenceEq(a, b) == a.cells = b.cells /\ a.count = b.count

known_mines(s) == IF s.count = Cardinality(s.cells) THEN s.cells ELSE {}

known_safes(s) == IF s.count = 0 THEN s.cells ELSE {}

\* Sentence.mark_mine that removes the cell but keeps the count
SentenceMarkMineKeepCount(s, c) ==
    IF c \in s.cells THEN [cells |-> s.cells \ {c}, count |-> s.count] ELSE s

SentenceMarkMine(s, c) ==
    IF c \in s.cells THEN [cells |-> s.cells \ {c}, count |-> s.count - 1] ELSE s

SentenceMarkSafe(s, c) ==
    IF c \in s.cells THEN [cells |-> s.cells \ {c}, count |-> s.count] ELSE s

-----------------------------------------------------------------------------
\* Python list operations on lists of Sentence

\* `s in lst`
InList(s, lst) == \E x \in 1 .. Len(lst) : SentenceEq(lst[x], s)

\* index of the element lst.remove(s) deletes: the first one equal to s
FirstEq(lst, s) == CHOOSE x \in 1 .. Len(lst) :
    /\ SentenceEq(lst[x], s)
    /\ \A y \in 1 .. x - 1 : ~SentenceEq(lst[y], s)

RemoveAt(lst, p) == SubSeq(lst, 1, p - 1) \o SubSeq(lst, p + 1, Len(lst))

\* a list iterator that yields the same index again
IterNextStuck(idx) == idx

\* advance of a list iterator after it has yielded the element at idx
IterNext(idx) == idx + 1

-----------------------------------------------------------------------------
\* The board

neighbours(c) ==
    { n \in Cells : /\ n # c
                    /\ n[1] \in c[1] - 1 .. c[1] + 1
                    /\ n[2] \in c[2] - 1 .. c[2] + 1 }

nearby_mines(c) == Cardinality(neighbours(c) \cap board)

\* The mine placements the games start from.  Minesweeper.__init__ places the
\* mines at random; neighbours() and every step of the engine treat the
\* coordinates alike, so a placement and its mirror images (rows reversed,
\* columns reversed, both) give mirror-image games.  One placement of each such
\* class is kept: the one with the least code.
RECURSIVE BoardCode(_)
BoardCode(b) ==
    IF b = {} THEN 0
    ELSE LET c == CHOOSE x \in b : TRUE
         IN 2 ^ (c[1] * Width + c[2]) + BoardCode(b \ {c})

FlipRows(b) == { <<Height - 1 - c[1], c[2]>> : c \in b }

FlipCols(b) == { <<c[1], Width - 1 - c[2]>> : c \in b }

Boards ==
    { b \in SUBSET Cells :
        /\ Cardinality(b) <= MaxMines
        /\ \A m \in { FlipRows(b), FlipCols(b), FlipRows(FlipCols(b)) } :
               BoardCode(b) <= BoardCode(m) }

-----------------------------------------------------------------------------
\* Helpers of the statement-level model

\* the Sentence object bound to sub_set
SubSet == IF subPos > 0 THEN knowledge[subPos] ELSE subVal

\* lines 216-218: every sentence's known_safes() / known_mines() is folded in
FoldedSafes == safes \cup UNION { known_safes(knowledge[x]) : x \in 1 .. Len(knowledge) }

FoldedMines == mines \cup UNION { known_mines(knowledge[x]) : x \in 1 .. Len(knowledge) }

\* lines 242-244: append every sentence of lst that is new and non-empty
RECURSIVE AppendNew(_, _)
AppendNew(kn, lst) ==
    IF lst = <<>> THEN kn
    ELSE LET s == Head(lst) IN
         AppendNew(IF ~InList(s, kn) /\ s.cells # {} THEN Append(kn, s) ELSE kn,
                   Tail(lst))

\* mark_cells that keeps mines and safes disjoint by moving the cells over
mark_cells_exclusive(cs, n, ret, safes0, mines0) ==
    IF n = 0
    THEN /\ safes' = safes0 \cup cs
         /\ mines' = mines0 \ cs
         /\ mcCells' = cs /\ mcKind' = "safe" /\ mcRet' = ret
         /\ pc' = "mark_cells"
    ELSE IF n = Cardinality(cs)
    THEN /\ mines' = mines0 \cup cs
         /\ safes' = safes0 \ cs
         /\ mcCells' = cs /\ mcKind' = "mine" /\ mcRet' = ret
         /\ pc' = "mark_cells"
    ELSE /\ safes' = safes0
         /\ mines' = mines0
         /\ UNCHANGED mcLocals
         /\ pc' = ret

\* MinesweeperAI.mark_cells(cs, n), entered with safes = safes0, mines = mines0:
\* the update of the set, then the loop over cs (pc = "mark_cells"), or neither
mark_cells(cs, n, ret, safes0, mines0) ==
    IF n = 0
    THEN /\ safes' = safes0 \cup cs
         /\ mines' = mines0
         /\ mcCells' = cs /\ mcKind' = "safe" /\ mcRet' = ret
         /\ pc' = "mark_cells"
    ELSE IF n = Cardinality(cs)
    THEN /\ mines' = mines0 \cup cs
         /\ safes' = safes0
         /\ mcCells' = cs /\ mcKind' = "mine" /\ mcRet' = ret
         /\ pc' = "mark_cells"
    ELSE /\ safes' = safes0
         /\ mines' = mines0
         /\ UNCHANGED mcLocals
         /\ pc' = ret

\* make_safe_move without the test `cell not in self.moves_made`
SafeMoveCandidatesAnySafe == safes

\* what make_safe_move may return a cell from
SafeMoveCandidates == { c \in safes : c \notin moves_made }

\* make_random_move without the test `cell not in self.mines`
available_moves_with_mines ==
    { c \in UNION { knowledge[x].cells : x \in 1 .. Len(knowledge) } :
        c \notin moves_made }

\* the list make_random_move chooses from (as a set)
available_moves ==
    { c \in UNION { knowledge[x].cells : x \in 1 .. Len(knowledge) } :
        c \notin moves_made /\ c \notin mines }

-----------------------------------------------------------------------------
\* Initial state: a board of Boards, a fresh MinesweeperAI

Init ==
    /\ board \in Boards
    /\ moves_made = {} /\ mines = {} /\ safes = {} /\ knowledge = <<>>
    /\ pc = "idle"
    /\ cell = None /\ count = 0 /\ neighbour_cells = {} /\ new_knowledge = <<>>
    /\ i = 0 /\ j = 0 /\ subPos = 0 /\ subVal = NoSentence
    /\ new_cells = {} /\ new_count = 0
    /\ mcCells = {} /\ mcKind = "none" /\ mcRet = "none"
    /\ mkCell = None /\ mkKind = "none" /\ k = 0 /\ mkRet = "none"
    /\ calls = 0
    /\ lastQuery = "none" /\ result = None

-----------------------------------------------------------------------------
\* add_knowledge without the call self.mark_safe(cell) of line 203
add_knowledge_unmarked(c, n) ==
    /\ pc = "idle"
    /\ calls' = calls + 1
    /\ cell' = c
    /\ count' = n
    /\ moves_made' = moves_made \cup {c}
    /\ pc' = "neighbours"
    /\ lastQuery' = "none" /\ result' = None
    /\ UNCHANGED <<board, mines, safes, knowledge, neighbour_cells, new_knowledge,
                   i, j, subPos, subVal, new_cells, new_count, mcLocals, mkLocals>>

\* Entry of add_knowledge(c, n), lines 201-203: record the move, then
\* mark_safe(c) (line 189, then its loop).
add_knowledge(c, n) ==
    /\ pc = "idle"
    /\ calls' = calls + 1
    /\ cell' = c
    /\ count' = n
    /\ moves_made' = moves_made \cup {c}
    /\ safes' = safes \cup {c}
    /\ mkCell' = c /\ mkKind' = "safe" /\ k' = 1 /\ mkRet' = "neighbours"
    /\ pc' = "mark_loop"
    /\ lastQuery' = "none" /\ result' = None
    /\ UNCHANGED <<board, mines, knowledge, neighbour_cells, new_knowledge, i, j,
                   subPos, subVal, new_cells, new_count, mcLocals>>

\* The driver reveals a cell c without a mine and passes the board's clue
AddKnowledge(c) ==
    /\ calls < MaxCalls
    /\ c \in Cells \ board
    /\ add_knowledge(c, nearby_mines(c))

\* A caller passes any cell, a mine or not, and any count from 0 to the number
\* of the cell's neighbours, truthful or not
AddKnowledgeAny(c, n) ==
    /\ calls < MaxAnyCalls
    /\ c \in Cells
    /\ n \in 0 .. Cardinality(neighbours(c))
    /\ add_knowledge(c, n)

\* One iteration of `for sentence in self.knowledge` in mark_safe / mark_mine
\* (lines 179-182, 190-193): the sentence at the iterator's index is updated in
\* place; if that leaves it empty, list.remove deletes the first equal element.
MarkLoopStep ==
    /\ pc = "mark_loop"
    /\ k <= Len(knowledge)
    /\ LET s  == IF mkKind = "mine" THEN SentenceMarkMine(knowledge[k], mkCell)
                                    ELSE SentenceMarkSafe(knowledge[k], mkCell)
           kn == [knowledge EXCEPT ![k] = s]
           p  == FirstEq(kn, s)
       IN IF Cardinality(s.cells) = 0
          THEN /\ knowledge' = RemoveAt(kn, p)
               /\ subPos' = IF subPos = p THEN 0
                            ELSE IF subPos > p THEN subPos - 1 ELSE subPos
               /\ subVal' = IF subPos = p THEN kn[p] ELSE subVal
          ELSE /\ knowledge' = kn
               /\ UNCHANGED <<subPos, subVal>>
    /\ k' = IterNext(k)
    /\ UNCHANGED <<board, moves_made, mines, safes, pc, cell, count,
                   neighbour_cells, new_knowledge, i, j, new_cells, new_count,
                   mcLocals, mkCell, mkKind, mkRet, calls, query>>

\* The loop of mark_safe / mark_mine is exhausted: return to the caller
MarkLoopReturn ==
    /\ pc = "mark_loop"
    /\ k > Len(knowledge)
    /\ pc' = mkRet
    /\ mkCell' = None /\ mkKind' = "none" /\ k' = 0 /\ mkRet' = "none"
    /\ UNCHANGED <<board, engine, akLocals, mcLocals, calls, query>>

\* Lines 205-219: the neighbourhood less the known cells, the adjusted count,
\* the fold of known_safes/known_mines, then the call mark_cells(neighbour_cells, count)
Neighbours ==
    /\ pc = "neighbours"
    /\ LET nb  == neighbours(cell)
           kmn == nb \cap mines
           ksf == nb \cap safes
           cnt == count - Cardinality(kmn)
           nc  == nb \ (kmn \cup ksf)
       IN /\ count' = cnt
          /\ neighbour_cells' = nc
          /\ mark_cells(nc, cnt, "new_sentence", FoldedSafes, FoldedMines)
    /\ UNCHANGED <<board, moves_made, knowledge, cell, new_knowledge, i, j,
                   subPos, subVal, new_cells, new_count, mkLocals, calls, query>>

\* One iteration of `for cell in cells` in mark_cells (lines 297-298, 302-303):
\* the call mark_safe(c) or mark_mine(c), up to the start of its loop
MarkCellsNext ==
    /\ pc = "mark_cells"
    /\ \E c \in mcCells :
         /\ mcCells' = mcCells \ {c}
         /\ mkCell' = c
         /\ IF mcKind = "safe"
            THEN safes' = safes \cup {c} /\ UNCHANGED mines
            ELSE mines' = mines \cup {c} /\ UNCHANGED safes
    /\ mkKind' = mcKind /\ k' = 1 /\ mkRet' = "mark_cells"
    /\ pc' = "mark_loop"
    /\ UNCHANGED <<board, moves_made, knowledge, akLocals, mcKind, mcRet, calls,
                   query>>

\* mark_cells has visited every cell: return to the caller
MarkCellsReturn ==
    /\ pc = "mark_cells"
    /\ mcCells = {}
    /\ pc' = mcRet
    /\ mcKind' = "none" /\ mcRet' = "none"
    /\ UNCHANGED <<board, engine, akLocals, mcCells, mkLocals, calls, query>>

\* Lines 221-229: the clue sentence over the still-undetermined neighbours is
\* appended unless an equal one is present; new_knowledge = []
NewSentence ==
    /\ pc = "new_sentence"
    /\ LET nc == (neighbour_cells \ mines) \ safes
           new_sentence == Sentence(nc, count)
       IN /\ neighbour_cells' = nc
          /\ knowledge' = IF ~InList(new_sentence, knowledge)
                          THEN Append(knowledge, new_sentence) ELSE knowledge
    /\ new_knowledge' = <<>>
    /\ i' = 1
    /\ pc' = "outer"
    /\ UNCHANGED <<board, moves_made, mines, safes, cell, count, j, subPos,
                   subVal, new_cells, new_count, mcLocals, mkLocals, calls, query>>

\* Line 231: `for sub_set in self.knowledge` yields the next sentence
OuterNext ==
    /\ pc = "outer"
    /\ i <= Len(knowledge)
    /\ subPos' = i /\ subVal' = NoSentence
    /\ i' = IterNext(i)
    /\ j' = 1
    /\ pc' = "inner"
    /\ UNCHANGED <<board, engine, cell, count, neighbour_cells, new_knowledge,
                   new_cells, new_count, mcLocals, mkLocals, calls, query>>

\* Line 231: the outer loop is exhausted
OuterDone ==
    /\ pc = "outer"
    /\ i > Len(knowledge)
    /\ pc' = "append"
    /\ UNCHANGED <<board, engine, akLocals, mcLocals, mkLocals, calls, query>>

\* Lines 232-238: `for super_set in self.knowledge` yields the next sentence;
\* when the pair derives a sentence, mark_cells(new_cells, new_count) is called
InnerNext ==
    /\ pc = "inner"
    /\ j <= Len(knowledge)
    /\ j' = IterNext(j)
    /\ LET sub_set   == SubSet
           super_set == knowledge[j]
           cs        == super_set.cells \ sub_set.cells
           n         == super_set.count - sub_set.count
       IN IF /\ ~SentenceEq(sub_set, super_set)
             /\ sub_set.cells \subseteq super_set.cells
             /\ Cardinality(cs) > 0
             /\ n >= 0
          THEN /\ new_cells' = cs
               /\ new_count' = n
               /\ mark_cells(cs, n, "derived", safes, mines)
          ELSE /\ UNCHANGED <<new_cells, new_count, mines, safes, mcLocals, pc>>
    /\ UNCHANGED <<board, moves_made, knowledge, cell, count, neighbour_cells,
                   new_knowledge, i, subPos, subVal, mkLocals, calls, query>>

\* Line 232: the inner loop is exhausted
InnerDone ==
    /\ pc = "inner"
    /\ j > Len(knowledge)
    /\ subPos' = 0 /\ subVal' = NoSentence
    /\ j' = 0
    /\ pc' = "outer"
    /\ UNCHANGED <<board, engine, cell, count, neighbour_cells, new_knowledge, i,
                   new_cells, new_count, mcLocals, mkLocals, calls, query>>

\* Lines 239-241: the derived sentence is staged in new_knowledge
Derived ==
    /\ pc = "derived"
    /\ LET updated_sentence == Sentence(new_cells, new_count)
       IN new_knowledge' =
            IF ~InList(updated_sentence, new_knowledge)
               /\ Cardinality(updated_sentence.cells) # 0
            THEN Append(new_knowledge, updated_sentence) ELSE new_knowledge
    /\ new_cells' = {} /\ new_count' = 0
    /\ pc' = "inner"
    /\ UNCHANGED <<board, engine, cell, count, neighbour_cells, i, j, subPos,
                   subVal, mcLocals, mkLocals, calls, query>>

\* Lines 242-244: the staged sentences are appended; add_knowledge returns
AppendAndReturn ==
    /\ pc = "append"
    /\ knowledge' = AppendNew(knowledge, new_knowledge)
    /\ pc' = "idle"
    /\ cell' = None /\ count' = 0 /\ neighbour_cells' = {} /\ new_knowledge' = <<>>
    /\ i' = 0 /\ j' = 0
    /\ UNCHANGED <<board, moves_made, mines, safes, subPos, subVal, new_cells,
                   new_count, mcLocals, mkLocals, calls, query>>

\* make_safe_move that records the cell it returns as a move made
MakeSafeMoveRecording ==
    /\ pc = "idle"
    /\ lastQuery' = "safe"
    /\ IF SafeMoveCandidates # {}
       THEN result' \in SafeMoveCandidates /\ moves_made' = moves_made \cup {result'}
       ELSE result' = None /\ UNCHANGED moves_made
    /\ UNCHANGED <<board, mines, safes, knowledge, pc, akLocals, mcLocals, mkLocals,
                   calls>>

\* make_safe_move(): the first cell of safes, in the set's iteration order,
\* that is not in moves_made; None if there is none.  The order is a property
\* of the set object, which the model does not carry: any untried safe cell
\* may be the first.
MakeSafeMove ==
    /\ pc = "idle"
    /\ lastQuery' = "safe"
    /\ IF SafeMoveCandidates # {}
       THEN result' \in SafeMoveCandidates
       ELSE result' = None
    /\ UNCHANGED <<board, engine, pc, akLocals, mcLocals, mkLocals, calls>>

\* make_random_move(): random.choice(available_moves); None on IndexError
MakeRandomMove ==
    /\ pc = "idle"
    /\ lastQuery' = "random"
    /\ IF available_moves # {}
       THEN result' \in available_moves
       ELSE result' = None
    /\ UNCHANGED <<board, engine, pc, akLocals, mcLocals, mkLocals, calls>>

\* the steps inside add_knowledge
Step ==
    \/ MarkLoopStep
    \/ MarkLoopReturn
    \/ Neighbours
    \/ MarkCellsNext
    \/ MarkCellsReturn
    \/ NewSentence
    \/ OuterNext
    \/ OuterDone
    \/ InnerNext
    \/ InnerDone
    \/ Derived
    \/ AppendAndReturn

Next ==
    \/ \E c \in Cells : AddKnowledge(c)
    \/ Step
    \/ MakeSafeMove
    \/ MakeRandomMove

Spec == Init /\ [][Next]_vars

\* The truthful game in which a call, once entered, runs to its return
FairSpec == Spec /\ WF_vars(Step)

\* The engine under a caller that passes arbitrary arguments
InitAny == Init /\ board = {}

NextAny ==
    \/ \E c \in Cells : \E n \in 0 .. Cardinality(Cells) : AddKnowledgeAny(c, n)
    \/ Step

\* add_knowledge is one synchronous call: once entered, it keeps running
FairAnySpec == InitAny /\ [][NextAny]_vars /\ WF_vars(Step)

-----------------------------------------------------------------------------
\* Properties

\* add_knowledge has returned (no call is in progress)
Returned == pc = "idle" /\ calls > 0

Sentences == { knowledge[x] : x \in 1 .. Len(knowledge) }

\* C1: under truthful clues every cell of safes is mine-free on the board and
\* every cell of mines holds a mine, in every reachable state.
C1_Soundness ==
    /\ \A c \in safes : c \notin board
    /\ \A c \in mines : c \in board

\* C2: after add_knowledge returns, no cell of mines or safes appears in the
\* cell set of any sentence of knowledge.
C2_KnownCellsPurged ==
    Returned => \A s \in Sentences : s.cells \cap (mines \cup safes) = {}

\* C3: after add_knowledge returns, mines and safes are disjoint.
C3_MinesSafesDisjoint ==
    Returned => mines \cap safes = {}

\* one more direct-inference pass would find no new cell
DirectPassIdle ==
    \A s \in Sentences : known_mines(s) \subseteq mines /\ known_safes(s) \subseteq safes

\* one more subset-inference pass would find no new cell and no new sentence
SubsetPassIdle ==
    \A x, y \in 1 .. Len(knowledge) :
        LET A == knowledge[x]
            B == knowledge[y]
            C == Sentence(B.cells \ A.cells, B.count - A.count)
        IN (x # y /\ A.cells \subseteq B.cells /\ C.cells # {} /\ C.count >= 0)
           => /\ InList(C, knowledge)
              /\ known_mines(C) \subseteq mines
              /\ known_safes(C) \subseteq safes

\* C4: when add_knowledge returns the knowledge base is at a fixed point of
\* inference: neither the direct pass nor the subset pass, run once more, would
\* add a cell to mines or safes or a sentence to knowledge.
C4_FixedPoint ==
    Returned => DirectPassIdle /\ SubsetPassIdle

\* C5: add_knowledge always terminates: every call that has been entered
\* returns, the loops over knowledge included.
C5_Terminates == (pc # "idle") ~> (pc = "idle")

\* C5 witness: inside the nested loops the sentence bound to sub_set has been
\* removed from knowledge by mark_safe / mark_mine
C5_Witness == pc = "inner" /\ subPos = 0 /\ subVal # NoSentence

\* C6: make_safe_move returns a cell of safes that is not in moves_made
\* whenever there is one, and None exactly when every cell of safes is in
\* moves_made.
C6_SafeMove ==
    lastQuery = "safe" =>
        /\ result # None => (result \in safes /\ result \notin moves_made)
        /\ result = None <=> safes \subseteq moves_made

\* C6 witness: a safe move was returned while some safe cells were already played
C6_Witness ==
    /\ lastQuery = "safe" /\ result # None
    /\ safes \cap moves_made # {}

C9_NoEmptySentence ==
    Returned => \A s \in Sentences : s.cells # {}

\* C10: after add_knowledge returns, knowledge holds no two sentences with
\* equal cell sets and equal counts.
C10_NoDuplicateSentence ==
    Returned => \A x, y \in 1 .. Len(knowledge) :
                    x # y => ~SentenceEq(knowledge[x], knowledge[y])

-----------------------------------------------------------------------------
\* One Sentence object under its two mutators, outside any engine.  The object
\* is knowledge[1]; subVal keeps its value before the last call, mkCell and
\* mkKind the argument and the mutator of the last call.

\* Sentence(cells, count) as the program builds them: cells out of one
\* neighbourhood, any count from below zero to above the number of cells
SentenceInputs ==
    { Sentence(cs, n) : <<cs, n>> \in
        { x \in (UNION { SUBSET neighbours(c) : c \in Cells })
                    \X (-1 .. Cardinality(Cells)) :
            x[2] <= Cardinality(x[1]) + 1 } }

InitSentence ==
    /\ board = {}
    /\ moves_made = {} /\ mines = {} /\ safes = {}
    /\ \E s \in SentenceInputs : knowledge = <<s>>
    /\ pc = "sentence"
    /\ cell = None /\ count = 0 /\ neighbour_cells = {} /\ new_knowledge = <<>>
    /\ i = 0 /\ j = 0 /\ subPos = 0 /\ subVal = NoSentence
    /\ new_cells = {} /\ new_count = 0
    /\ mcCells = {} /\ mcKind = "none" /\ mcRet = "none"
    /\ mkCell = None /\ mkKind = "none" /\ k = 0 /\ mkRet = "none"
    /\ calls = 0
    /\ lastQuery = "none" /\ result = None

\* sentence.mark_mine(c), lines 122-129
CallSentenceMarkMine(c) ==
    /\ pc = "sentence"
    /\ subVal' = knowledge[1]
    /\ knowledge' = <<SentenceMarkMine(knowledge[1], c)>>
    /\ mkCell' = c /\ mkKind' = "mine"
    /\ UNCHANGED <<board, moves_made, mines, safes, pc, cell, count,
                   neighbour_cells, new_knowledge, i, j, subPos, new_cells,
                   new_count, mcLocals, k, mkRet, calls, query>>

\* sentence.mark_safe(c), lines 131-137
CallSentenceMarkSafe(c) ==
    /\ pc = "sentence"
    /\ subVal' = knowledge[1]
    /\ knowledge' = <<SentenceMarkSafe(knowledge[1], c)>>
    /\ mkCell' = c /\ mkKind' = "safe"
    /\ UNCHANGED <<board, moves_made, mines, safes, pc, cell, count,
                   neighbour_cells, new_knowledge, i, j, subPos, new_cells,
                   new_count, mcLocals, k, mkRet, calls, query>>

NextSentence ==
    \/ \E c \in Cells : CallSentenceMarkMine(c)
    \/ \E c \in Cells : CallSentenceMarkSafe(c)

SentenceSpec == InitSentence /\ [][NextSentence]_vars

\* a mutator has been called on the Sentence object
SentenceCalled == pc = "sentence" /\ mkKind # "none"

\* C14: after S.mark_safe(c), c is not in S.cells and S.count is unchanged;
\* after S.mark_mine(c), c is not in S.cells and S.count is one less if c was
\* a member and unchanged otherwise; every other cell of S stays, and the same
\* call repeated with the now-absent cell changes nothing.
C14_SentenceMutators ==
    SentenceCalled =>
        LET old == subVal
            new == knowledge[1]
        IN /\ mkCell \notin new.cells
           /\ new.cells = old.cells \ {mkCell}
           /\ mkKind = "safe" => new.count = old.count
           /\ mkKind = "mine" =>
                  new.count = IF mkCell \in old.cells THEN old.count - 1
                                                      ELSE old.count
           /\ mkKind = "safe" => SentenceMarkSafe(new, mkCell) = new
           /\ mkKind = "mine" => SentenceMarkMine(new, mkCell) = new

\* C14 witness: mark_mine has removed a member from a sentence that still has
\* other cells
C14_Witness ==
    /\ SentenceCalled /\ mkKind = "mine"
    /\ mkCell \in subVal.cells
    /\ knowledge[1].cells # {}

\* C11: in every reachable state, every sentence of knowledge has a count that
\* does not exceed the number of its cells.
C11_CountAtMostCells ==
    \A s \in Sentences : s.count <= Cardinality(s.cells)

\* C12: no sentence with a negative count is ever present in knowledge.
C12_NoNegativeCount ==
    \A s \in Sentences : s.count >= 0

\* C13: moves_made, mines and safes only grow: every step leaves each of them
\* a superset of what it was.
C13_Monotonic ==
    [][/\ moves_made \subseteq moves_made'
       /\ mines \subseteq mines'
       /\ safes \subseteq safes']_vars

\* C13 witness: all three sets have grown, and a cell has been put into both
\* mines and safes
C13_Witness ==
    /\ moves_made # {} /\ mines \cap safes # {}
    /\ pc = "idle"

\* mark_safe(mkCell) / mark_mine(mkCell) has exhausted its loop and is about to
\* return
MarkReturning == pc = "mark_loop" /\ k > Len(knowledge)

\* C15: when the engine's mark_safe(cell) (mark_mine(cell)) returns, cell is in
\* safes (mines), no sentence of knowledge contains cell and no sentence of
\* knowledge has an empty cell set.
C15_MarkPurges ==
    MarkReturning =>
        /\ mkKind = "safe" => mkCell \in safes
        /\ mkKind = "mine" => mkCell \in mines
        /\ \A s \in Sentences : mkCell \notin s.cells /\ s.cells # {}

\* the clue sentence has just been constructed (and appended unless present):
\* its cell set is neighbour_cells, its count is count
ClueSentenceBuilt == pc = "outer" /\ i = 1

\* C16: the clue sentence of add_knowledge(cell, count) has as cells exactly
\* the neighbours of cell in neither mines nor safes at that moment, and as
\* count the clue less the number of neighbours of cell in mines at that moment.
C16_ClueSentence ==
    ClueSentenceBuilt =>
        /\ neighbour_cells = neighbours(cell) \ (mines \cup safes)
        /\ count = nearby_mines(cell) - Cardinality(neighbours(cell) \cap mines)

\* the cells B.cells - A.cells of the pairs of distinct sentences A, B of
\* knowledge with A.cells a subset of B.cells, B.cells - A.cells non-empty and
\* B.count = A.count
EqualCountDifferences ==
    UNION { knowledge[b].cells \ knowledge[a].cells :
              <<a, b>> \in { p \in (1 .. Len(knowledge)) \X (1 .. Len(knowledge)) :
                  /\ p[1] # p[2]
                  /\ knowledge[p[1]].cells \subseteq knowledge[p[2]].cells
                  /\ knowledge[p[2]].cells \ knowledge[p[1]].cells # {}
                  /\ knowledge[p[2]].count = knowledge[p[1]].count } }

\* C17: if, once add_knowledge has appended its clue sentence, knowledge holds
\* distinct sentences A and B with A.cells a subset of B.cells, B.cells - A.cells
\* non-empty and B.count = A.count, then every cell of B.cells - A.cells is in
\* safes when the call returns (safes never loses a cell, and the caller may
\* make no further call: the cell is in safes on return exactly if it gets
\* there at all).
C17_SubsetConclusion ==
    \A c \in Cells :
        (ClueSentenceBuilt /\ c \in EqualCountDifferences) ~> (c \in safes)

\* add_knowledge has run its last loop and is about to return
Returning == pc = "append"

\* C18: when add_knowledge(cell, 0) returns, every neighbour of cell is in safes.
C18_ZeroClue ==
    (Returning /\ nearby_mines(cell) = 0) => neighbours(cell) \subseteq safes

\* C19: every sentence of knowledge is true of the board: the number of its
\* cells that hold a mine equals its count, in every reachable state.
C19_SentencesTrue ==
    \A s \in Sentences : Cardinality(s.cells \cap board) = s.count

\* C20: every revealed cell is recorded as safe: moves_made is a subset of
\* safes in every reachable state, and the cell of a call is in both.
C20_MovesAreSafe ==
    /\ moves_made \subseteq safes
    /\ pc # "idle" => (cell \in moves_made /\ cell \in safes)

\* C20 witness: add_knowledge is returning, several cells have been revealed
C20_Witness ==
    /\ Returning /\ Cardinality(moves_made) > 1
====
